---- MODULE Spec2Model ----
(***************************************************************************)
(* Model of profiler/universal_profiler.py: the FunctionProfiler object,   *)
(* the monitoring thread running start_monitoring, the trace hook          *)
(* (function_enter / function_exit), get_aggregated_stats and the driver   *)
(* profile_script.  Two threads of control: the main thread (which runs    *)
(* the target program in-line and therefore the hook) and the sampler.     *)
(***************************************************************************)
EXTENDS Integers, Sequences, FiniteSets, Bags, TLC

(***************************************************************************)
(* Bounds of the model.                                                    *)
(***************************************************************************)
MaxCalls == 2
MaxDepth == 2
MaxTicks == 2
\* calls, and their nesting, in the runs of the target alone
MaxHookCalls == 4
MaxHookDepth == 3

(***************************************************************************)
(* Program constants.                                                      *)
(***************************************************************************)
sample_interval == 1

(***************************************************************************)
(* Paths are sequences of characters.  target_script is the absolute path  *)
(* of the profiled script; FileLib is the path of a library module.        *)
(***************************************************************************)
target_script == <<"/", "a", "/", "t">>
FileLib == <<"/", "a", "/", "l">>

startswith(s, p) ==
  /\ Len(p) <= Len(s)
  /\ SubSeq(s, 1, Len(p)) = p

RECURSIVE basename(_)
basename(p) ==
  IF p = <<>> THEN <<>>
  ELSE IF p[Len(p)] = "/" THEN <<>>
  ELSE basename(SubSeq(p, 1, Len(p) - 1)) \o <<p[Len(p)]>>

Digits == <<"0", "1", "2", "3", "4", "5", "6", "7", "8", "9">>

RECURSIVE Str(_)
Str(n) ==
  IF n < 10 THEN <<Digits[n + 1]>>
  ELSE Str(n \div 10) \o <<Digits[(n % 10) + 1]>>

(***************************************************************************)
(* Code objects of the process.  first is co_firstlineno (the line a frame *)
(* is on at its 'call' event); body is the set of lines on which the code  *)
(* executes instructions (the line a frame is on at its 'return' event).   *)
(***************************************************************************)
ModuleCode == [file |-> target_script, name |-> "<module>", first |-> 1, body |-> {1}]
CodeFoo    == [file |-> target_script, name |-> "foo", first |-> 1, body |-> {2}]
CodeBar    == [file |-> target_script, name |-> "bar", first |-> 4, body |-> {4}]
CodeLib    == [file |-> FileLib, name |-> "lib", first |-> 7, body |-> {8}]

Codes == {CodeFoo, CodeBar, CodeLib}

Lines == UNION {c.body : c \in Codes}

IdleMarker == <<"<main>">>

\* f"{os.path.basename(filename)}:{func_name}:{lineno}"
FuncId(frame) ==
  basename(frame.code.file) \o <<":", frame.code.name, ":">> \o Str(frame.lineno)

\* the filters without the test for the module pseudo-frame
Admitted_any_name(frame) == startswith(frame.code.file, target_script)

\* the two early returns shared by function_enter and function_exit
Admitted(frame) ==
  /\ startswith(frame.code.file, target_script)
  /\ frame.code.name # "<module>"

Range(s) == {s[i] : i \in DOMAIN s}

RECURSIVE Reverse(_)
Reverse(s) == IF s = <<>> THEN <<>> ELSE Reverse(Tail(s)) \o <<Head(s)>>

\* list.remove(x): delete the first element equal to x
RECURSIVE ListRemove(_, _)
ListRemove(s, x) ==
  IF s = <<>> THEN <<>>
  ELSE IF Head(s) = x THEN Tail(s)
  ELSE <<Head(s)>> \o ListRemove(Tail(s), x)

\* defaultdict(int) read
Count(d, k) == IF k \in DOMAIN d THEN d[k] ELSE 0

\* function_enter with "= 1" in place of "+= 1"
function_enter_assign(frame, stack, counts) ==
  IF ~Admitted(frame) THEN [stack |-> stack, counts |-> counts]
  ELSE LET func_id == FuncId(frame) IN
       [stack  |-> Append(stack, func_id),
        counts |-> [k \in DOMAIN counts \cup {func_id} |->
                      IF k = func_id THEN 1 ELSE counts[k]]]

\* function_enter: the state of (call_stack, call_counts) after the hook
function_enter(frame, stack, counts) ==
  IF ~Admitted(frame) THEN [stack |-> stack, counts |-> counts]
  ELSE LET func_id == FuncId(frame) IN
       [stack  |-> Append(stack, func_id),
        counts |-> [k \in DOMAIN counts \cup {func_id} |->
                      IF k = func_id THEN Count(counts, k) + 1 ELSE counts[k]]]

\* function_exit deleting every occurrence of the identifier
function_exit_all(frame, stack) ==
  IF ~Admitted(frame) THEN stack
  ELSE LET func_id == FuncId(frame) IN
       SelectSeq(stack, LAMBDA x : x # func_id)

\* function_exit popping the top of call_stack, whatever identifier it holds
function_exit_pop(frame, stack) ==
  IF ~Admitted(frame) \/ stack = <<>> THEN stack
  ELSE SubSeq(stack, 1, Len(stack) - 1)

\* function_exit without the two reverse() calls: list.remove alone, which
\* deletes the occurrence closest to the head
function_exit_head(frame, stack) ==
  IF ~Admitted(frame) THEN stack
  ELSE ListRemove(stack, FuncId(frame))

\* function_exit: the state of call_stack after the hook
function_exit(frame, stack) ==
  IF ~Admitted(frame) THEN stack
  ELSE LET func_id == FuncId(frame) IN
       IF func_id \in Range(stack)
       THEN Reverse(ListRemove(Reverse(stack), func_id))
       ELSE stack


(***************************************************************************)
(* Metric readings the psutil calls can return, and time.                  *)
(***************************************************************************)
\* (cpu percent, resident MB) pairs
Readings == {<<10, 7>>, <<30, 5>>}

\* datetime.fromtimestamp(t).strftime('%H:%M:%S')
strftime(t) == <<(t \div 3600) % 24, (t \div 60) % 60, t % 60>>

VARIABLES
  mainpc,          \* position of the main thread in profile_script
  alive,           \* the process has not exited yet
  outcome,         \* how exec of the target ended: "none", "ok", "raised"
  tracing,         \* sys.settrace hook installed
  frames,          \* Python frame stack of the target, module frame first
  samplerpc,       \* position of the monitoring thread in start_monitoring
  cur,             \* locals of start_monitoring: cpu, mem, current_time, active_funcs
  now,             \* time.time()
  stop_event,      \* self.stop_event
  stop_seen,       \* where the sampler was, and the log, when stop_event was set
  lock,            \* holder of self.lock
  call_stack,      \* self.call_stack
  call_counts,     \* self.call_counts
  function_stats,  \* self.function_stats: func_id -> list of (time, cpu, mem)
  stats_order,     \* insertion order of the keys of self.function_stats
  per_second_log,  \* self.per_second_log
  iter_keys,       \* keys of function_stats when get_aggregated_stats began iterating
  stats,           \* local stats of profile_script
  stdout,          \* what the process has printed, in order
  ncalls,          \* number of function calls the target has made
  enters,          \* history: admitted 'call' events delivered so far, per identifier
  naive,           \* history: the stack of a naive replay of the delivered events
  last_exit        \* history: identifier of the last admitted 'return' event and
                   \* call_stack as that event found it

vars == <<mainpc, alive, outcome, tracing, frames, samplerpc, cur, now, stop_event, stop_seen,
          lock, call_stack, call_counts, function_stats, stats_order, per_second_log,
          iter_keys, stats, stdout, ncalls, enters, naive, last_exit>>

mainVars    == <<mainpc, alive, outcome, tracing, frames, stats, iter_keys>>
hookVars    == <<call_stack, call_counts, ncalls, enters, naive, last_exit>>
samplerVars == <<samplerpc, cur, now, function_stats, stats_order, per_second_log, stdout>>

NoCur == [cpu |-> 0, mem |-> 0, current_time |-> 0, active_funcs |-> <<>>]

\* FunctionProfiler.__init__ has run; nothing else has
Init ==
  /\ mainpc = "start"
  /\ alive = TRUE
  /\ outcome = "none"
  /\ tracing = FALSE
  /\ frames = <<>>
  /\ samplerpc = "unstarted"
  /\ cur = NoCur
  /\ now = 0
  /\ stop_event = FALSE
  /\ stop_seen = [pc |-> "none", log |-> <<>>]
  /\ lock = "free"
  /\ call_stack = <<>>
  /\ call_counts = <<>>
  /\ function_stats = <<>>
  /\ stats_order = <<>>
  /\ per_second_log = <<>>
  /\ iter_keys = <<>>
  /\ stats = <<>>
  /\ stdout = <<>>
  /\ ncalls = 0
  /\ enters = <<>>
  /\ naive = <<>>
  /\ last_exit = [id |-> <<>>, before |-> <<>>]

(***************************************************************************)
(* profile_script, up to the end of the target program.                    *)
(***************************************************************************)
\* monitor_thread.start()
StartThread ==
  /\ mainpc = "start"
  /\ mainpc' = "settrace"
  /\ samplerpc' = "prime"
  /\ UNCHANGED <<alive, outcome, tracing, frames, cur, now, stop_event, stop_seen, lock,
                 call_stack, call_counts, function_stats, stats_order,
                 per_second_log, iter_keys, stats, stdout, ncalls, enters, naive, last_exit>>

\* sys.settrace(tracer)
SetTrace ==
  /\ mainpc = "settrace"
  /\ mainpc' = "compile"
  /\ tracing' = TRUE
  /\ UNCHANGED <<alive, outcome, frames, samplerpc, cur, now, stop_event, stop_seen, lock,
                 call_stack, call_counts, function_stats, stats_order,
                 per_second_log, iter_keys, stats, stdout, ncalls, enters, naive, last_exit>>

\* tracer(frame, event, arg): only 'call' and 'return' reach the profiler
tracer(frame, event, stack, counts) ==
  IF event = "call" THEN function_enter(frame, stack, counts)
  ELSE IF event = "return" THEN [stack |-> function_exit(frame, stack), counts |-> counts]
  ELSE [stack |-> stack, counts |-> counts]

\* a hook that touches call_stack and call_counts without taking self.lock
HookCanRun_unlocked(frame) == TRUE

\* the hook takes self.lock only for a frame that passes both filters
HookCanRun(frame) == Admitted(frame) => lock = "free"

\* the naive stack: push on enter, delete one matching entry on exit
NaiveStep(frame, event, stack) ==
  IF ~Admitted(frame) THEN stack
  ELSE IF event = "call" THEN <<FuncId(frame)>> \o stack
  ELSE ListRemove(stack, FuncId(frame))

\* an event of the target: it reaches tracer only while the hook is installed
Deliver(frame, event) ==
  IF tracing
  THEN LET r == tracer(frame, event, call_stack, call_counts) IN
       /\ HookCanRun(frame)
       /\ call_stack' = r.stack
       /\ call_counts' = r.counts
       /\ naive' = NaiveStep(frame, event, naive)
       /\ enters' = IF event = "call" /\ Admitted(frame)
                    THEN [k \in DOMAIN enters \cup {FuncId(frame)} |->
                            Count(enters, k) + (IF k = FuncId(frame) THEN 1 ELSE 0)]
                    ELSE enters
       /\ last_exit' = IF event = "return" /\ Admitted(frame)
                       THEN [id |-> FuncId(frame), before |-> call_stack]
                       ELSE last_exit
  ELSE UNCHANGED <<call_stack, call_counts, naive, enters, last_exit>>

\* a frame at its 'call' event; entered remembers the identifier of that event
NewFrame(c) ==
  LET f == [code |-> c, lineno |-> c.first] IN
  [code |-> c, lineno |-> c.first, entered |-> FuncId(f)]

\* open + compile succeed and exec enters the module frame
ExecBegin ==
  /\ mainpc = "compile"
  /\ LET f == NewFrame(ModuleCode) IN
     /\ Deliver(f, "call")
     /\ frames' = <<f>>
  /\ mainpc' = "exec"
  /\ UNCHANGED <<alive, outcome, tracing, samplerpc, cur, now, stop_event, stop_seen, lock,
                 function_stats, stats_order, per_second_log, iter_keys, stats,
                 stdout, ncalls>>

\* open or compile raises: the finally clause runs with no frame executed
CompileFails ==
  /\ mainpc = "compile"
  /\ mainpc' = "untrace"
  /\ outcome' = "raised"
  /\ UNCHANGED <<alive, tracing, frames, samplerpc, cur, now, stop_event, stop_seen, lock,
                 call_stack, call_counts, function_stats, stats_order,
                 per_second_log, iter_keys, stats, stdout, ncalls, enters, naive, last_exit>>

\* the target calls a function: new frame on its first line, 'call' event;
\* at most calls calls in a run, nested at most depth deep
TargetCallUpTo(c, calls, depth) ==
  /\ mainpc = "exec"
  /\ Len(frames) <= depth
  /\ ncalls < calls
  /\ ncalls' = ncalls + 1
  /\ LET f == NewFrame(c) IN
     /\ Deliver(f, "call")
     /\ frames' = Append(frames, f)
  /\ UNCHANGED <<mainpc, alive, outcome, tracing, samplerpc, cur, now, stop_event, stop_seen,
                 lock, function_stats, stats_order, per_second_log, iter_keys,
                 stats, stdout>>

TargetCall(c) == TargetCallUpTo(c, MaxCalls, MaxDepth)

\* the running frame moves to a line of its body: 'line' event, ignored by tracer
TargetLine(l) ==
  /\ mainpc = "exec"
  /\ Len(frames) > 1
  /\ LET top == frames[Len(frames)] IN
     /\ l \in top.code.body
     /\ l # top.lineno
     /\ LET f == [top EXCEPT !.lineno = l]
            r == IF tracing THEN tracer(f, "line", call_stack, call_counts)
                 ELSE [stack |-> call_stack, counts |-> call_counts] IN
        /\ frames' = [frames EXCEPT ![Len(frames)] = f]
        /\ call_stack' = r.stack
        /\ call_counts' = r.counts
  /\ UNCHANGED <<mainpc, alive, outcome, tracing, samplerpc, cur, now, stop_event, stop_seen,
                 lock, function_stats, stats_order, per_second_log, iter_keys,
                 stats, stdout, ncalls, enters, naive, last_exit>>

\* the running frame returns or is unwound by an exception: 'return' event
TargetReturn ==
  /\ mainpc = "exec"
  /\ Len(frames) > 1
  /\ LET top == frames[Len(frames)] IN
     /\ top.lineno \in top.code.body
     /\ Deliver(top, "return")
  /\ frames' = SubSeq(frames, 1, Len(frames) - 1)
  /\ UNCHANGED <<mainpc, alive, outcome, tracing, samplerpc, cur, now, stop_event, stop_seen,
                 lock, function_stats, stats_order, per_second_log, iter_keys,
                 stats, stdout, ncalls>>

\* the module frame ends, normally or with an exception that leaves exec
TargetFinish(o) ==
  /\ mainpc = "exec"
  /\ Len(frames) = 1
  /\ Deliver(frames[1], "return")
  /\ frames' = <<>>
  /\ outcome' = o
  /\ mainpc' = "untrace"
  /\ UNCHANGED <<alive, tracing, samplerpc, cur, now, stop_event, stop_seen, lock,
                 function_stats, stats_order, per_second_log, iter_keys, stats,
                 stdout, ncalls>>

(***************************************************************************)
(* start_monitoring, run by the monitoring thread.                         *)
(***************************************************************************)
\* lines 28-29: the priming cpu_percent(interval=None) call returns
Prime ==
  /\ alive
  /\ samplerpc = "prime"
  /\ samplerpc' = "loop"
  /\ UNCHANGED <<mainVars, hookVars, cur, now, stop_event, stop_seen, lock, function_stats,
                 stats_order, per_second_log, stdout>>

\* line 31: the while test
LoopTest ==
  /\ alive
  /\ samplerpc = "loop"
  /\ IF stop_event THEN samplerpc' = "done"
     ELSE /\ now < MaxTicks * sample_interval
          /\ samplerpc' = "read"
  /\ UNCHANGED <<mainVars, hookVars, cur, now, stop_event, stop_seen, lock, function_stats,
                 stats_order, per_second_log, stdout>>

\* lines 32-35: the blocking cpu_percent(interval), memory_info and time.time()
ReadMetrics(cpu, mem) ==
  /\ alive
  /\ samplerpc = "read"
  /\ now' = now + sample_interval
  /\ cur' = [cpu |-> cpu, mem |-> mem, current_time |-> now', active_funcs |-> <<>>]
  /\ samplerpc' = "lockwait"
  /\ UNCHANGED <<mainVars, hookVars, stop_event, stop_seen, lock, function_stats,
                 stats_order, per_second_log, stdout>>

\* a psutil call raises: nothing in start_monitoring catches it, the thread dies
MetricsFail ==
  /\ alive
  /\ samplerpc \in {"prime", "read"}
  /\ samplerpc' = "crashed"
  /\ UNCHANGED <<mainVars, hookVars, cur, now, stop_event, stop_seen, lock, function_stats,
                 stats_order, per_second_log, stdout>>

\* the orders list(set(...)) can produce: every arrangement of the distinct elements
Orderings(S) ==
  {q \in [1 .. Cardinality(S) -> S] : \A i, j \in 1 .. Cardinality(S) : i # j => q[i] # q[j]}

\* lines 39-40 with the loop left after its first identifier
AppendSamples_first(d, fs, triple) ==
  IF fs = <<>> THEN d
  ELSE LET k == Head(fs)
           old == IF k \in DOMAIN d.series THEN d.series[k] ELSE <<>>
       IN [series |-> [x \in DOMAIN d.series \cup {k} |->
                         IF x = k THEN Append(old, triple) ELSE d.series[x]],
           order  |-> IF k \in DOMAIN d.series THEN d.order ELSE Append(d.order, k)]

RECURSIVE AppendSamples(_, _, _)
\* lines 39-40 over the remaining identifiers fs, on d = [series, order]
AppendSamples(d, fs, triple) ==
  IF fs = <<>> THEN d
  ELSE LET k == Head(fs)
           old == IF k \in DOMAIN d.series THEN d.series[k] ELSE <<>>
           d2 == [series |-> [x \in DOMAIN d.series \cup {k} |->
                                IF x = k THEN Append(old, triple) ELSE d.series[x]],
                  order  |-> IF k \in DOMAIN d.series THEN d.order ELSE Append(d.order, k)]
       IN AppendSamples(d2, Tail(fs), triple)

\* line 38 without set(): list(self.call_stack) if self.call_stack else ['<main>']
ActiveChoices_list ==
  IF call_stack # <<>> THEN {call_stack} ELSE {<<IdleMarker>>}

\* line 38: list(set(self.call_stack)) if self.call_stack else ['<main>']
ActiveChoices ==
  IF call_stack # <<>> THEN Orderings(Range(call_stack)) ELSE {<<IdleMarker>>}

\* lines 42-47, for the identifiers active
log_entry(active) ==
  [timestamp |-> strftime(cur.current_time), cpu |-> cur.cpu, mem |-> cur.mem,
   active_functions |-> active]

\* lines 37-48: take the lock, snapshot call_stack, extend function_stats and
\* per_second_log
Snapshot(active) ==
  /\ alive
  /\ samplerpc = "lockwait"
  /\ lock = "free"
  /\ active \in ActiveChoices
  /\ lock' = "sampler"
  /\ cur' = [cur EXCEPT !.active_funcs = active]
  /\ LET d == AppendSamples([series |-> function_stats, order |-> stats_order], active,
                            <<cur.current_time, cur.cpu, cur.mem>>) IN
     /\ function_stats' = d.series
     /\ stats_order' = d.order
  /\ per_second_log' = Append(per_second_log, log_entry(active))
  /\ samplerpc' = "print"
  /\ UNCHANGED <<mainVars, hookVars, now, stop_event, stop_seen, stdout>>

\* lines 50-55 and the end of the with block
PrintTick ==
  /\ alive
  /\ samplerpc = "print"
  /\ stdout' = Append(stdout, [type |-> "tick", entry |-> log_entry(cur.active_funcs)])
  /\ lock' = "free"
  /\ samplerpc' = "loop"
  /\ UNCHANGED <<mainVars, hookVars, cur, now, stop_event, stop_seen, function_stats,
                 stats_order, per_second_log>>

(***************************************************************************)
(* get_aggregated_stats.                                                   *)
(***************************************************************************)
RECURSIVE SumOf(_, _)
SumOf(samples, field) ==
  IF samples = <<>> THEN 0 ELSE Head(samples)[field] + SumOf(Tail(samples), field)

MaxOf(samples, field) ==
  CHOOSE m \in {samples[i][field] : i \in DOMAIN samples} :
    \A i \in DOMAIN samples : samples[i][field] <= m

Max2(a, b) == IF a >= b THEN a ELSE b

RECURSIVE Gcd(_, _)
Gcd(a, b) == IF b = 0 THEN a ELSE Gcd(b, a % b)

\* the quotient a / b of two non-negative numbers, as a fraction in lowest terms
Quotient(a, b) ==
  LET g == Gcd(a, b) IN
  IF a = 0 THEN [num |-> 0, den |-> 1] ELSE [num |-> a \div g, den |-> b \div g]

Zero == [num |-> 0, den |-> 1]

\* lines 107-123 for one key with a non-empty sample list: the entry the first
\* loop leaves in aggregated
Aggregate(func_id, samples, counts) ==
  LET first_time == samples[1][1]
      last_time == samples[Len(samples)][1]
  IN [calls      |-> Count(counts, func_id),
      total_time |-> last_time - first_time,
      total_cpu  |-> SumOf(samples, 2),
      max_cpu    |-> MaxOf(samples, 2),
      total_mem  |-> SumOf(samples, 3),
      max_mem    |-> MaxOf(samples, 3),
      first_seen |-> first_time,
      last_seen  |-> Max2(0, last_time)]

\* lines 103-123: the first loop, over the keys of function_stats
RECURSIVE AggregateKeys(_, _, _)
AggregateKeys(keys, series, counts) ==
  IF keys = <<>> THEN <<>>
  ELSE LET k == Head(keys)
           rest == AggregateKeys(Tail(keys), series, counts)
       IN IF series[k] = <<>> THEN rest
          ELSE <<[function |-> k, data |-> Aggregate(k, series[k], counts)]>> \o rest

\* lines 124-131: the second loop divides the totals of the first loop by the
\* length the sample list has when the second loop reads it
Averages(aggregated, series) ==
  [i \in DOMAIN aggregated |->
     LET d == aggregated[i].data
         k == aggregated[i].function
         sample_count == IF k \in DOMAIN series THEN Len(series[k]) ELSE 0
     IN [function |-> k,
         data |-> [calls      |-> d.calls,
                   total_time |-> d.total_time,
                   total_cpu  |-> d.total_cpu,
                   max_cpu    |-> d.max_cpu,
                   total_mem  |-> d.total_mem,
                   max_mem    |-> d.max_mem,
                   first_seen |-> d.first_seen,
                   last_seen  |-> d.last_seen,
                   avg_cpu    |-> IF sample_count > 0
                                  THEN Quotient(d.total_cpu, sample_count) ELSE Zero,
                   avg_mem    |-> IF sample_count > 0
                                  THEN Quotient(d.total_mem, sample_count) ELSE Zero]]]

\* the dict returned by a call nothing interleaves with, as its items in
\* insertion order
get_aggregated_stats(series, order, counts) ==
  Averages(AggregateKeys(order, series, counts), series)

\* self.call_counts[func_id] in place of .get: a defaultdict(int) inserts the key
counts_after_index(counts, func_id) ==
  [k \in DOMAIN counts \cup {func_id} |-> Count(counts, k)]

\* line 107, self.call_counts.get(func_id, 0): the dict after the read
counts_after_get(counts, func_id) == counts

\* line 125, self.function_stats[func_id]: the defaultdict(list) after the read
series_after_index(d, func_id) ==
  IF func_id \in DOMAIN d.series THEN d
  ELSE [d EXCEPT !.series = [k \in DOMAIN d.series \cup {func_id} |->
                               IF k = func_id THEN <<>> ELSE d.series[k]],
                 !.order = Append(d.order, func_id)]

RECURSIVE ReadEffects(_, _)
\* what the reads of get_aggregated_stats leave in d = [series, order, counts]
ReadEffects(keys, d) ==
  IF keys = <<>> THEN d
  ELSE LET k == Head(keys) IN
       IF d.series[k] = <<>> THEN ReadEffects(Tail(keys), d)
       ELSE LET d1 == [d EXCEPT !.counts = counts_after_get(d.counts, k)]
                d2 == series_after_index([series |-> d1.series, order |-> d1.order], k)
            IN ReadEffects(Tail(keys), [series |-> d2.series, order |-> d2.order,
                                        counts |-> d1.counts])

\* key=lambda x: -x[1]['total_time']
SortKey(item) == 0 - item.data.total_time

\* sorted(items, key=SortKey): stable, ascending in the key
RECURSIVE InsertSorted(_, _)
InsertSorted(done, x) ==
  IF done = <<>> THEN <<x>>
  ELSE IF SortKey(Head(done)) > SortKey(x) THEN <<x>> \o done
  ELSE <<Head(done)>> \o InsertSorted(Tail(done), x)

RECURSIVE sorted(_)
sorted(items) ==
  IF items = <<>> THEN <<>>
  ELSE InsertSorted(sorted(SubSeq(items, 1, Len(items) - 1)), items[Len(items)])

\* lines 173-190
final_data(st, log) ==
  [type |-> "profilerData",
   realTimeData |-> log,
   functionStats |->
     LET srt == sorted(st) IN
     [i \in DOMAIN srt |->
        [function  |-> srt[i].function,
         calls     |-> srt[i].data.calls,
         totalTime |-> srt[i].data.total_time,
         avgCpu    |-> srt[i].data.avg_cpu,
         maxCpu    |-> srt[i].data.max_cpu,
         avgMem    |-> srt[i].data.avg_mem,
         maxMem    |-> srt[i].data.max_mem]]]

(***************************************************************************)
(* profile_script, from the finally clause on.                             *)
(***************************************************************************)
\* a finally clause that leaves the hook installed
Untrace_keep ==
  /\ mainpc = "untrace"
  /\ mainpc' = "setstop"
  /\ UNCHANGED <<tracing, alive, outcome, frames, iter_keys, stats, hookVars, samplerVars,
                 stop_event, stop_seen, lock>>

\* sys.settrace(None)
Untrace ==
  /\ mainpc = "untrace"
  /\ tracing' = FALSE
  /\ mainpc' = "setstop"
  /\ UNCHANGED <<alive, outcome, frames, iter_keys, stats, hookVars, samplerVars,
                 stop_event, stop_seen, lock>>

\* profiler.stop_event.set()
SetStop ==
  /\ mainpc = "setstop"
  /\ stop_event' = TRUE
  /\ stop_seen' = [pc |-> samplerpc, log |-> per_second_log]
  /\ mainpc' = "join"
  /\ UNCHANGED <<alive, outcome, tracing, frames, iter_keys, stats, hookVars,
                 samplerVars, lock>>

\* after the finally clause: a pending exception of the target leaves profile_script
AfterFinally == IF outcome = "raised" THEN "failed" ELSE "printlog"

\* monitor_thread.join(timeout=2.0) returns because the thread has ended
JoinEnded ==
  /\ mainpc = "join"
  /\ samplerpc \in {"done", "crashed"}
  /\ mainpc' = AfterFinally
  /\ UNCHANGED <<alive, outcome, tracing, frames, iter_keys, stats, hookVars,
                 samplerVars, stop_event, stop_seen, lock>>

\* monitor_thread.join(timeout=2.0) returns because the timeout has elapsed
JoinTimeout ==
  /\ mainpc = "join"
  /\ samplerpc \notin {"done", "crashed"}
  /\ mainpc' = AfterFinally
  /\ UNCHANGED <<alive, outcome, tracing, frames, iter_keys, stats, hookVars,
                 samplerVars, stop_event, stop_seen, lock>>

\* lines 159-165: the table of per_second_log
PrintLog ==
  /\ mainpc = "printlog"
  /\ stdout' = stdout \o [i \in DOMAIN per_second_log |->
                            [type |-> "row", entry |-> per_second_log[i]]]
  /\ mainpc' = "aggregate"
  /\ UNCHANGED <<alive, outcome, tracing, frames, iter_keys, stats, hookVars,
                 samplerpc, cur, now, function_stats, stats_order, per_second_log,
                 stop_event, stop_seen, lock>>

\* line 172: get_aggregated_stats runs its first loop over function_stats.items()
AggregateBegin ==
  /\ mainpc = "aggregate"
  /\ iter_keys' = stats_order
  /\ stats' = AggregateKeys(stats_order, function_stats, call_counts)
  /\ mainpc' = "iterating"
  /\ UNCHANGED <<alive, outcome, tracing, frames, hookVars, samplerVars,
                 stop_event, stop_seen, lock>>

\* the first loop ends, with RuntimeError if a key was inserted meanwhile, and
\* the second loop runs
AggregateEnd ==
  /\ mainpc = "iterating"
  /\ IF stats_order # iter_keys
     THEN /\ mainpc' = "failed"
          /\ stats' = <<>>
          /\ UNCHANGED <<function_stats, stats_order, call_counts>>
     ELSE LET e == ReadEffects(stats_order, [series |-> function_stats,
                                             order |-> stats_order,
                                             counts |-> call_counts]) IN
          /\ mainpc' = "emit"
          /\ stats' = Averages(stats, function_stats)
          /\ function_stats' = e.series
          /\ stats_order' = e.order
          /\ call_counts' = e.counts
  /\ UNCHANGED <<alive, outcome, tracing, frames, iter_keys, call_stack, ncalls, enters,
                 naive, last_exit, samplerpc, cur, now, per_second_log, stdout, stop_event,
                 stop_seen, lock>>

\* line 191: print(json.dumps(final_data))
Emit ==
  /\ mainpc = "emit"
  /\ stdout' = Append(stdout, final_data(stats, per_second_log))
  /\ mainpc' = "done"
  /\ UNCHANGED <<alive, outcome, tracing, frames, iter_keys, stats, hookVars,
                 samplerpc, cur, now, function_stats, stats_order, per_second_log,
                 stop_event, stop_seen, lock>>

\* the main thread has left profile_script: the process ends, daemon thread included
Exit ==
  /\ mainpc \in {"done", "failed"}
  /\ alive
  /\ alive' = FALSE
  /\ UNCHANGED <<mainpc, outcome, tracing, frames, iter_keys, stats, hookVars,
                 samplerVars, stop_event, stop_seen, lock>>

\* every step but the timeout of the join
NextJoined ==
  \/ StartThread
  \/ SetTrace
  \/ ExecBegin
  \/ CompileFails
  \/ \E c \in Codes : TargetCall(c)
  \/ \E l \in Lines : TargetLine(l)
  \/ TargetReturn
  \/ \E o \in {"ok", "raised"} : TargetFinish(o)
  \/ Untrace
  \/ SetStop
  \/ JoinEnded
  \/ PrintLog
  \/ AggregateBegin
  \/ AggregateEnd
  \/ Emit
  \/ Exit
  \/ Prime
  \/ LoopTest
  \/ \E r \in Readings : ReadMetrics(r[1], r[2])
  \/ MetricsFail
  \/ \E active \in ActiveChoices : Snapshot(active)
  \/ PrintTick

Next == NextJoined \/ JoinTimeout

Spec == Init /\ [][Next]_vars

\* the runs in which the monitoring thread always ends within the join timeout
SpecJoined == Init /\ [][NextJoined]_vars

\* the runs in which the monitoring thread is not scheduled before the target
\* has ended: the target and the hook alone
NextTarget ==
  \/ StartThread
  \/ SetTrace
  \/ ExecBegin
  \/ \E c \in Codes : TargetCallUpTo(c, MaxHookCalls, MaxHookDepth)
  \/ \E l \in Lines : TargetLine(l)
  \/ TargetReturn
  \/ \E o \in {"ok", "raised"} : TargetFinish(o)

SpecTarget == Init /\ [][NextTarget]_vars

(***************************************************************************)
(* Properties.                                                             *)
(***************************************************************************)
BagOfSeq(s) == [x \in Range(s) |-> Cardinality({i \in DOMAIN s : s[i] = x})]

ActiveAdmitted == {i \in DOMAIN frames : Admitted(frames[i])}

\* C1: every admitted frame leaves with the identifier it entered with, the
\* identifier of every active admitted frame is on call_stack, and call_stack
\* is empty once no admitted frame is active.
C1_StableIdentifier ==
  /\ [][(Len(frames') < Len(frames) /\ Admitted(frames[Len(frames)])) =>
          FuncId(frames[Len(frames)]) = frames[Len(frames)].entered]_vars
  /\ [](\A i \in ActiveAdmitted : frames[i].entered \in Range(call_stack))
  /\ [](ActiveAdmitted = {} => call_stack = <<>>)

\* C2: after any sequence of delivered events the multiset of call_stack is the
\* multiset left by the naive simulation of the admitted events.
C2_NaiveStack == BagOfSeq(call_stack) = BagOfSeq(naive)

\* an identifier entered twice of which an exit has deleted one entry, the
\* frame of the other being still active
C2_Witness ==
  /\ Len(call_stack) = 1
  /\ Count(enters, call_stack[1]) = 2
  /\ \E i \in ActiveAdmitted : frames[i].entered = call_stack[1]

\* C3: call_counts[id] is the number of admitted enter events for id so far,
\* and no step decreases or drops a counter.
C3_Counters ==
  /\ [](/\ DOMAIN call_counts = DOMAIN enters
        /\ \A id \in DOMAIN enters : call_counts[id] = enters[id])
  /\ [][\A id \in DOMAIN call_counts :
          id \in DOMAIN call_counts' /\ call_counts'[id] >= call_counts[id]]_vars

\* a function entered twice, with an exit delivered, a tick taken and the
\* summary emitted
C3_Witness ==
  /\ \E id \in DOMAIN call_counts : call_counts[id] = 2 /\ id \notin Range(call_stack)
  /\ per_second_log # <<>>
  /\ mainpc = "done"

Terminals == {i \in DOMAIN stdout : stdout[i].type = "profilerData"}
Ticks == {i \in DOMAIN stdout : stdout[i].type = "tick"}
MainEnded == mainpc \in {"done", "failed"}
SamplerEnded == samplerpc \in {"done", "crashed"}

\* the summary entry the claim expects for a function that was never sampled
UnsampledEntry(id) ==
  [function |-> id, calls |-> call_counts[id], totalTime |-> 0,
   avgCpu |-> Zero, avgMem |-> Zero]

\* C4: once the terminal message is out, every function with a positive counter
\* and no sample has an entry in the aggregate and in the message's summary
\* list, with its call count, zero span and zero averages.
C4_UnsampledReported ==
  mainpc = "done" =>
    \A id \in DOMAIN call_counts :
      (call_counts[id] > 0 /\ id \notin DOMAIN function_stats) =>
        /\ \E i \in DOMAIN stats :
             /\ stats[i].function = id
             /\ stats[i].data.calls = call_counts[id]
             /\ stats[i].data.total_time = 0
             /\ stats[i].data.avg_cpu = Zero
             /\ stats[i].data.avg_mem = Zero
        /\ \A t \in Terminals : \E i \in DOMAIN stdout[t].functionStats :
             LET e == stdout[t].functionStats[i] IN
             [function |-> e.function, calls |-> e.calls, totalTime |-> e.totalTime,
              avgCpu |-> e.avgCpu, avgMem |-> e.avgMem] = UnsampledEntry(id)

\* C5: while profile_script reads per_second_log and function_stats, the stop
\* signal is set and the monitoring thread has ended.
C5_AggregationAfterSampler ==
  mainpc \in {"printlog", "aggregate", "iterating", "emit"} =>
    stop_event /\ SamplerEnded

\* C6: no step that snapshots call_stack or appends a record is taken with the
\* stop signal set.
C6_NoSnapshotAfterStop ==
  [][((samplerpc = "lockwait" /\ samplerpc' = "print")
      \/ Len(per_second_log') > Len(per_second_log)) => ~stop_event]_vars

\* C7: in the output every tick message precedes the terminal message.
C7_TicksBeforeTerminal ==
  \A t \in Terminals : \A k \in Ticks : k < t

\* C8: at most one terminal message is ever printed; a run that has ended has
\* printed exactly one, however the target ended; and when the process is gone
\* every record of per_second_log has had its tick message printed.
C8_TerminalExactlyOnce ==
  /\ Cardinality(Terminals) <= 1
  /\ MainEnded => Cardinality(Terminals) = 1
  /\ ~alive => Cardinality(Ticks) = Len(per_second_log)

MidTick == {"read", "lockwait", "print"}

\* C9: a run whose stop signal arrived while the sampler was inside a tick ends
\* with exactly one terminal message, whose raw log starts with the records
\* that were in per_second_log when the signal was set, in the same order.
C9_StopMidTick ==
  (MainEnded /\ stop_seen.pc \in MidTick) =>
    /\ Cardinality(Terminals) = 1
    /\ \A t \in Terminals :
         /\ Len(stdout[t].realTimeData) >= Len(stop_seen.log)
         /\ SubSeq(stdout[t].realTimeData, 1, Len(stop_seen.log)) = stop_seen.log

\* C10: after a metrics failure on tick n the log holds the n-1 earlier
\* records and nothing of tick n, n-1 tick messages have been printed, and a
\* run that has ended has printed the terminal message.
C10_MetricsFailureStops ==
  samplerpc = "crashed" =>
    /\ Len(per_second_log) = now \div sample_interval
    /\ Cardinality(Ticks) = now \div sample_interval
    /\ MainEnded => Cardinality(Terminals) = 1

\* the order of Python strings on the tokens identifiers are made of
TokenOrder ==
  <<"0", "1", "2", "3", "4", "5", "6", "7", "8", "9", ":", "<main>", "<module>",
    "a", "bar", "foo", "l", "lib", "t">>

Rank(tok) == CHOOSE i \in DOMAIN TokenOrder : TokenOrder[i] = tok

RECURSIVE IdLess(_, _)
IdLess(a, b) ==
  IF b = <<>> THEN FALSE
  ELSE IF a = <<>> THEN TRUE
  ELSE IF Head(a) = Head(b) THEN IdLess(Tail(a), Tail(b))
  ELSE Rank(Head(a)) < Rank(Head(b))

\* x may stand before y in the summary list
SummaryBefore(x, y) ==
  \/ x.totalTime > y.totalTime
  \/ /\ x.totalTime = y.totalTime
     /\ \/ x.calls > y.calls
        \/ x.calls = y.calls /\ IdLess(x.function, y.function)

\* C11: the summary list of the terminal message is in descending order of
\* totalTime, ties in descending order of calls, then ascending identifier.
C11_SummaryOrder ==
  \A t \in Terminals :
    LET L == stdout[t].functionStats IN
    \A i, j \in DOMAIN L : i < j => SummaryBefore(L[i], L[j])

\* C12: a call of get_aggregated_stats leaves function_stats, call_counts,
\* call_stack and per_second_log as they were, and a second call on what it
\* leaves returns the same summaries.
C12_AggregationIdempotent ==
  [][(mainpc = "iterating" /\ mainpc' = "emit") =>
       /\ function_stats' = function_stats
       /\ stats_order' = stats_order
       /\ DOMAIN call_counts' = DOMAIN call_counts
       /\ call_counts' = call_counts
       /\ call_stack' = call_stack
       /\ per_second_log' = per_second_log
       /\ get_aggregated_stats(function_stats', stats_order', call_counts') = stats']_vars

\* an aggregation has read the counter of an identifier that has none (the idle
\* marker) next to one that has
C12_Witness ==
  /\ mainpc = "emit"
  /\ \E i \in DOMAIN stats : stats[i].function \notin DOMAIN call_counts
  /\ \E i \in DOMAIN stats : stats[i].function \in DOMAIN call_counts

\* C13: the hook changes call_stack and call_counts only in a step that takes
\* and releases the lock, the sampler reads call_stack only in the step that
\* takes the lock, and the sampler holds the lock nowhere but between its
\* snapshot and its print: never in its metrics read.
C13_LockDiscipline ==
  /\ [][(call_stack' # call_stack \/ call_counts' # call_counts) =>
          lock = "free" /\ lock' = "free"]_vars
  /\ [][(samplerpc = "lockwait" /\ samplerpc' # "lockwait") =>
          lock = "free" /\ lock' = "sampler"]_vars
  /\ [](lock = "sampler" <=> samplerpc = "print")
  /\ [](samplerpc = "read" => lock = "free")

\* the sampler holds the lock while the target runs with entries on call_stack
C13_Witness ==
  /\ lock = "sampler"
  /\ mainpc = "exec"
  /\ call_stack # <<>>
  /\ Len(frames) > 1

AfterTarget ==
  {"setstop", "join", "printlog", "aggregate", "iterating", "emit", "done", "failed"}

\* C14: the hook is installed whenever a frame of the target exists, it is
\* removed by the first step after the target has finished, however it
\* finished, the stop signal is never set with the hook installed, and outside
\* the execution of the target no step changes call_stack or call_counts.
C14_HookLifetime ==
  /\ [](frames # <<>> => tracing)
  /\ [](mainpc \in AfterTarget => ~tracing)
  /\ [](stop_event => ~tracing)
  /\ [][mainpc \notin {"compile", "exec"} =>
          call_stack' = call_stack /\ call_counts' = call_counts]_vars

\* the target has raised after admitted calls; the hook is gone and the stop
\* signal is set
C14_Witness ==
  /\ outcome = "raised"
  /\ DOMAIN call_counts # {}
  /\ ~tracing
  /\ stop_event

\* steps of the target as the hook sees them
ExitStep == Len(frames') < Len(frames)
EnterStep == Len(frames') > Len(frames)
LineStep == Len(frames') = Len(frames) /\ frames' # frames
Exiting == frames[Len(frames)]
HookStateUnchanged == call_stack' = call_stack /\ call_counts' = call_counts

\* C15: an exit event whose identifier is not on call_stack changes neither
\* call_stack nor call_counts.
C15_UnmatchedExit ==
  [][ExitStep /\ FuncId(Exiting) \notin Range(call_stack) => HookStateUnchanged]_vars

\* an admitted exit found a non-empty call_stack without its identifier, and
\* call_stack is still what that exit found
C15_Witness ==
  /\ last_exit.id # <<>>
  /\ last_exit.before # <<>>
  /\ last_exit.id \notin Range(last_exit.before)
  /\ call_stack = last_exit.before

\* the sequence s without its element at position k
RemoveAt(s, k) == SubSeq(s, 1, k - 1) \o SubSeq(s, k + 1, Len(s))

\* the position closest to the tail at which x occurs in s
LastIndex(s, x) ==
  CHOOSE k \in DOMAIN s : s[k] = x /\ \A j \in DOMAIN s : j > k => s[j] # x

\* C17: an exit event whose identifier is on call_stack deletes its occurrence
\* closest to the tail and nothing else: the other entries keep their values
\* and order, the length drops by one, call_counts is untouched.
C17_ExitRemovesLast ==
  [][ExitStep /\ FuncId(Exiting) \in Range(call_stack) =>
       /\ call_stack' = RemoveAt(call_stack, LastIndex(call_stack, FuncId(Exiting)))
       /\ Len(call_stack') = Len(call_stack) - 1
       /\ call_counts' = call_counts]_vars

\* the last exit found its identifier twice on call_stack, with another
\* identifier between the two and another one on top, and call_stack is what
\* that exit left
C17_Witness ==
  LET b == last_exit.before
      id == last_exit.id IN
  /\ \E i, j, k \in DOMAIN b : i < j /\ j < k /\ b[i] = id /\ b[j] # id /\ b[k] = id
  /\ b # <<>>
  /\ b[Len(b)] # id
  /\ call_stack = RemoveAt(b, LastIndex(b, id))

\* a frame the filters are meant to discard: a file outside the path of the
\* target, or the module pseudo-frame
Discarded(frame) ==
  \/ ~startswith(frame.code.file, target_script)
  \/ frame.code.name = "<module>"

\* C19: a 'line' event, and a 'call' or 'return' event of a discarded frame,
\* change neither call_stack nor call_counts.
C19_DiscardedNoEffect ==
  [][(\/ LineStep
      \/ EnterStep /\ Discarded(frames'[Len(frames')])
      \/ ExitStep /\ Discarded(Exiting)) => HookStateUnchanged]_vars

\* a library frame was called under an admitted call and has moved to its next
\* line; no identifier of the library is counted or on call_stack
C19_Witness ==
  /\ Len(frames) = 3
  /\ frames[3].code = CodeLib
  /\ frames[3].lineno # CodeLib.first
  /\ call_stack # <<>>
  /\ {frames[3].entered, FuncId(frames[3])} \cap (DOMAIN call_counts \cup Range(call_stack)) = {}

NoDuplicates(s) == \A i, j \in DOMAIN s : i # j => s[i] # s[j]

\* the step in which the sampler snapshots call_stack
SnapshotStep == samplerpc = "lockwait" /\ samplerpc' = "print"

\* C16: the record a snapshot appends lists every identifier on call_stack
\* once and nothing else, or the idle marker alone exactly when call_stack is
\* empty; no record of the log lists an identifier twice.
C16_ActiveSet ==
  /\ [](\A i \in DOMAIN per_second_log :
          /\ per_second_log[i].active_functions # <<>>
          /\ NoDuplicates(per_second_log[i].active_functions))
  /\ [][SnapshotStep =>
          LET a == per_second_log'[Len(per_second_log')].active_functions IN
          /\ Len(per_second_log') = Len(per_second_log) + 1
          /\ NoDuplicates(a)
          /\ call_stack # <<>> => Range(a) = Range(call_stack)
          /\ call_stack = <<>> <=> a = <<IdleMarker>>]_vars

\* a snapshot has just been taken of a call_stack holding one identifier twice,
\* and its record lists that identifier once
C16_Witness ==
  /\ samplerpc = "print"
  /\ Len(call_stack) = 2
  /\ Cardinality(Range(call_stack)) = 1
  /\ per_second_log # <<>>
  /\ per_second_log[Len(per_second_log)].active_functions = <<call_stack[1]>>

\* v is the arithmetic mean of field f over samples
IsMean(v, samples, f) == v.den > 0 /\ v.num * Len(samples) = v.den * SumOf(samples, f)

\* v is the largest value of field f in samples
IsPeak(v, samples, f) ==
  /\ \E i \in DOMAIN samples : samples[i][f] = v
  /\ \A i \in DOMAIN samples : samples[i][f] <= v

\* C18: when get_aggregated_stats returns, every identifier with at least one
\* sample has one entry, whose calls is its counter, whose total_time is the
\* time of its last sample minus that of its first (not negative, 0 for a
\* single sample), and whose averages and peaks are the means and the maxima
\* over its own samples.
C18_AggregateValues ==
  [][(mainpc = "iterating" /\ mainpc' = "emit") =>
       \A k \in DOMAIN function_stats' :
         LET samples == function_stats'[k] IN
         samples # <<>> =>
           /\ Cardinality({i \in DOMAIN stats' : stats'[i].function = k}) = 1
           /\ \A i \in DOMAIN stats' :
                stats'[i].function = k =>
                  LET d == stats'[i].data IN
                  /\ d.calls = Count(call_counts', k)
                  /\ d.total_time = samples[Len(samples)][1] - samples[1][1]
                  /\ d.total_time >= 0
                  /\ Len(samples) = 1 => d.total_time = 0
                  /\ IsMean(d.avg_cpu, samples, 2)
                  /\ IsMean(d.avg_mem, samples, 3)
                  /\ IsPeak(d.max_cpu, samples, 2)
                  /\ IsPeak(d.max_mem, samples, 3)]_vars

\* the identifiers some record of the log lists as active
Logged == UNION {Range(per_second_log[i].active_functions) : i \in DOMAIN per_second_log}

SeriesOf(k) == IF k \in DOMAIN function_stats THEN function_stats[k] ELSE <<>>

\* C20: while the sampler does not hold the lock, every identifier has as many
\* samples in function_stats as there are log records listing it; the times of
\* each sample list never decrease; and per_second_log only grows at its end.
C20_LogAndSeries ==
  /\ [](lock # "sampler" =>
          \A k \in DOMAIN function_stats \cup Logged :
            Len(SeriesOf(k)) =
              Cardinality({i \in DOMAIN per_second_log :
                             k \in Range(per_second_log[i].active_functions)}))
  /\ [](\A k \in DOMAIN function_stats :
          \A i, j \in DOMAIN function_stats[k] :
            i < j => function_stats[k][i][1] <= function_stats[k][j][1])
  /\ [][/\ Len(per_second_log') >= Len(per_second_log)
        /\ SubSeq(per_second_log', 1, Len(per_second_log)) = per_second_log]_vars

\* two ticks are logged and the lock is free: one tick saw two identifiers on
\* call_stack, and one identifier was seen by both ticks, another by one only
C20_Witness ==
  /\ lock = "free"
  /\ Len(per_second_log) = 2
  /\ \E i \in DOMAIN per_second_log : Len(per_second_log[i].active_functions) = 2
  /\ \E k \in DOMAIN function_stats : Len(function_stats[k]) = 2
  /\ \E k \in DOMAIN function_stats : Len(function_stats[k]) = 1

====
